---- MODULE Spec2Model ----
(***************************************************************************)
(* Model of the Elemental Conductor provider                               *)
(* (provider/elementalconductor/elementalconductor.go) and of the factory  *)
(* of the Media Convert provider (provider/mediaconvert/aws.go).           *)
(*                                                                         *)
(* A Go string the code inspects is a sequence of one-character strings    *)
(* (""  is <<>>); a Go string the code only passes along (a preset         *)
(* identifier, a job id, an error text) is an opaque TLA+ string.  Go      *)
(* slices are sequences; index i of Go is index i+1 here.                  *)
(***************************************************************************)
EXTENDS Integers, Sequences, FiniteSets, TLC

VARIABLES
    build,      \* SpecBuild: one application of the job-specification builder
    poll,       \* SpecStatus: one application of JobStatus to a backend reply
    fact,       \* SpecFactory: one application of a provider factory
    provider,   \* Spec: the elementalConductorProvider instance under use
    inv,        \* Spec: per caller, the invocation it is in
    posted      \* Spec: the requests the backend's PostJob has received, in order

vars == <<build, poll, fact, provider, inv, posted>>

(***************************************************************************)
(* Bounds                                                                  *)
(***************************************************************************)
MaxSrcLen == 3      \* length of the enumerated source strings
MaxRootLen == 2     \* length of the enumerated destination roots
MaxPresets == 2     \* length of the enumerated preset lists
MaxTime == 1        \* timestamps are 0 (the zero time) .. MaxTime
MaxJobs == 2        \* submissions in one behaviour of Spec

(***************************************************************************)
(* Go standard library functions the code calls                            *)
(***************************************************************************)
\* a variant of Split that drops empty segments, as strings.FieldsFunc would
RECURSIVE SplitDropEmpty(_, _)
SplitDropEmpty(s, sep) ==
    IF \A i \in 1..Len(s) : s[i] # sep
    THEN (IF s = <<>> THEN <<>> ELSE <<s>>)
    ELSE LET i    == CHOOSE k \in 1..Len(s) :
                         s[k] = sep /\ \A j \in 1..(k-1) : s[j] # sep
             rest == SplitDropEmpty(SubSeq(s, i+1, Len(s)), sep)
         IN  IF i = 1 THEN rest ELSE <<SubSeq(s, 1, i-1)>> \o rest

\* strings.Split(s, sep) for a one-character sep: always at least one element
RECURSIVE Split(_, _)
Split(s, sep) ==
    IF \A i \in 1..Len(s) : s[i] # sep
    THEN <<s>>
    ELSE LET i == CHOOSE k \in 1..Len(s) :
                      s[k] = sep /\ \A j \in 1..(k-1) : s[j] # sep
         IN  <<SubSeq(s, 1, i-1)>> \o Split(SubSeq(s, i+1, Len(s)), sep)

\* os.IsPathSeparator on the platforms the service is built for (Unix)
IsPathSeparator(c) == c = "/"

\* filepath.Ext(path): scans from the end, stops at a separator, returns the
\* suffix starting at the last dot, "" when there is none
RECURSIVE ExtFrom(_, _)
ExtFrom(path, i) ==
    IF i < 1 \/ IsPathSeparator(path[i]) THEN <<>>
    ELSE IF path[i] = "." THEN SubSeq(path, i, Len(path))
    ELSE ExtFrom(path, i-1)

Ext(path) == ExtFrom(path, Len(path))

HasSuffix(s, suffix) ==
    /\ Len(suffix) <= Len(s)
    /\ SubSeq(s, Len(s) - Len(suffix) + 1, Len(s)) = suffix

\* strings.TrimSuffix(s, suffix)
TrimSuffix(s, suffix) ==
    IF HasSuffix(s, suffix) THEN SubSeq(s, 1, Len(s) - Len(suffix)) ELSE s

\* strings.TrimRight(s, cutset) for a one-character cutset: drops every
\* trailing occurrence
RECURSIVE TrimRight(_, _)
TrimRight(s, c) ==
    IF Len(s) > 0 /\ s[Len(s)] = c THEN TrimRight(SubSeq(s, 1, Len(s)-1), c)
    ELSE s

Digits == <<"0", "1", "2", "3", "4", "5", "6", "7", "8", "9">>

\* strconv.Itoa(n): decimal, no leading zeros, "-" for negatives
RECURSIVE ItoaNat(_)
ItoaNat(n) ==
    IF n < 10 THEN <<Digits[n+1]>>
    ELSE ItoaNat(n \div 10) \o <<Digits[(n % 10) + 1]>>

Itoa(n) == IF n < 0 THEN <<"-">> \o ItoaNat(0 - n) ELSE ItoaNat(n)

(***************************************************************************)
(* Constants of the package                                                *)
(***************************************************************************)
Name == "elementalconductor"
defaultJobPriority == 50
defaultOutputGroupOrder == 1
defaultExtension == <<".", "m", "p", "4">>
streamPrefix == <<"s", "t", "r", "e", "a", "m", "_">>

(***************************************************************************)
(* The job-specification builder                                           *)
(***************************************************************************)
\* what a call that panicked (index out of range) yields
Panic == [panic |-> TRUE]

\* the final segment of the source, without its extension
sourceFileName(source) ==
    LET sourceParts        == Split(source, "/")
        sourceFilenamePart == sourceParts[Len(sourceParts)]
    IN  TrimSuffix(sourceFilenamePart, Ext(sourceFilenamePart))

\* a variant of buildFullDestination that removes one trailing separator only
buildFullDestinationTrimOne(p, source) ==
    LET destination == TrimSuffix(p.client.Destination, <<"/">>)
    IN  destination \o <<"/">> \o sourceFileName(source)

\* a variant of buildFullDestination that leaves the file name out
buildFullDestinationRootOnly(p, source) ==
    LET destination == TrimRight(p.client.Destination, "/")
    IN  destination \o <<"/">>

buildFullDestination(p, source) ==
    LET destination == TrimRight(p.client.Destination, "/")
    IN  destination \o <<"/">> \o sourceFileName(source)

\* the index expression sourceParts[len(sourceParts)-1] panics on an empty slice
buildFullDestinationPanics(source) == Len(Split(source, "/")) - 1 < 0

\* a variant of the loop body that numbers the outputs from one
renditionOrderFromOne(index, preset) ==
    LET streamAssemblyName == streamPrefix \o Itoa(index)
    IN  [output |-> [StreamAssemblyName |-> streamAssemblyName,
                     Order              |-> index + 1,
                     Extension          |-> defaultExtension],
         streamAssembly |-> [Name |-> streamAssemblyName, Preset |-> preset]]

\* the (output, stream assembly) pair the loop body appends for Go index `index`
rendition(index, preset) ==
    LET streamAssemblyName == streamPrefix \o Itoa(index)
    IN  [output |-> [StreamAssemblyName |-> streamAssemblyName,
                     Order              |-> index,
                     Extension          |-> defaultExtension],
         streamAssembly |-> [Name |-> streamAssemblyName, Preset |-> preset]]

buildOutputsAndStreamAssemblies(presets) ==
    [outputList         |-> [k \in 1..Len(presets) |-> rendition(k-1, presets[k]).output],
     streamAssemblyList |-> [k \in 1..Len(presets) |-> rendition(k-1, presets[k]).streamAssembly]]

newJob(p, source, presets) ==
    LET inputLocation  == [URI      |-> source,
                           Username |-> p.client.AccessKeyID,
                           Password |-> p.client.SecretAccessKey]
        outputLocation == [URI      |-> buildFullDestination(p, source),
                           Username |-> p.client.AccessKeyID,
                           Password |-> p.client.SecretAccessKey]
        lists          == buildOutputsAndStreamAssemblies(presets)
    IN  IF buildFullDestinationPanics(source) THEN Panic
        ELSE
        [Input          |-> [FileInput |-> inputLocation],
         Priority       |-> defaultJobPriority,
         OutputGroup    |-> [Order             |-> defaultOutputGroupOrder,
                             FileGroupSettings |-> [Destination |-> outputLocation],
                             Type              |-> "file_group_settings",
                             Output            |-> lists.outputList],
         StreamAssembly |-> lists.streamAssemblyList]

(***************************************************************************)
(* Values shared by the operations                                         *)
(***************************************************************************)
\* Go's nil, for a pointer, an interface or an error
Nil == [nil |-> TRUE]

\* the canonical statuses of package provider
StatusQueued   == "queued"
StatusStarted  == "started"
StatusFinished == "finished"
StatusFailed   == "failed"
StatusCanceled == "canceled"
StatusArchived == "archived"

UpperLetters == <<"A", "B", "C", "D", "E", "F", "G", "H", "I", "J", "K", "L", "M",
                  "N", "O", "P", "Q", "R", "S", "T", "U", "V", "W", "X", "Y", "Z">>
LowerLetters == <<"a", "b", "c", "d", "e", "f", "g", "h", "i", "j", "k", "l", "m",
                  "n", "o", "p", "q", "r", "s", "t", "u", "v", "w", "x", "y", "z">>

\* unicode.ToLower on the characters of the model's alphabet
ToLowerRune(c) ==
    IF \E i \in 1..26 : UpperLetters[i] = c
    THEN LowerLetters[CHOOSE i \in 1..26 : UpperLetters[i] = c]
    ELSE c

\* strings.ToLower(s)
ToLower(s) == [i \in 1..Len(s) |-> ToLowerRune(s[i])]

\* the native status vocabulary of the switch
sPending        == <<"p", "e", "n", "d", "i", "n", "g">>
sPreprocessing  == <<"p", "r", "e", "p", "r", "o", "c", "e", "s", "s", "i", "n", "g">>
sRunning        == <<"r", "u", "n", "n", "i", "n", "g">>
sPostprocessing == <<"p", "o", "s", "t", "p", "r", "o", "c", "e", "s", "s", "i", "n", "g">>
sComplete       == <<"c", "o", "m", "p", "l", "e", "t", "e">>
sCancelled      == <<"c", "a", "n", "c", "e", "l", "l", "e", "d">>
sArchived       == <<"a", "r", "c", "h", "i", "v", "e", "d">>

(***************************************************************************)
(* The status normalizer                                                   *)
(***************************************************************************)
\* a variant of statusMap that compares without lowering the case
statusMapCaseSensitive(elementalConductorStatus) ==
    LET s == elementalConductorStatus
    IN  CASE s = sPending        -> StatusQueued
          [] s = sPreprocessing  -> StatusStarted
          [] s = sRunning        -> StatusStarted
          [] s = sPostprocessing -> StatusStarted
          [] s = sComplete       -> StatusFinished
          [] s = sCancelled      -> StatusCanceled
          [] s = sArchived       -> StatusArchived
          [] OTHER               -> StatusFailed

statusMap(elementalConductorStatus) ==
    LET s == ToLower(elementalConductorStatus)
    IN  CASE s = sPending        -> StatusQueued
          [] s = sPreprocessing  -> StatusStarted
          [] s = sRunning        -> StatusStarted
          [] s = sPostprocessing -> StatusStarted
          [] s = sComplete       -> StatusFinished
          [] s = sCancelled      -> StatusCanceled
          [] s = sArchived       -> StatusArchived
          [] OTHER               -> StatusFailed

\* time.Time.IsZero: the zero time is 0
IsZero(t) == t = 0

\* Job.GetID of the backend client: the id the reply carries
GetID(resp) == resp.ID

\* a variant of the detail map that always carries errored_time
providerStatusAlwaysErrored(resp) ==
    LET m0 == ("status" :> resp.Status)
              @@ ("pct_complete" :> Itoa(resp.PercentComplete))
              @@ ("submitted" :> resp.Submitted)
              @@ ("errored_time" :> resp.ErroredTime)
        m1 == IF ~IsZero(resp.StartTime)
              THEN m0 @@ ("start_time" :> resp.StartTime) ELSE m0
        m2 == IF ~IsZero(resp.CompleteTime)
              THEN m1 @@ ("complete_time" :> resp.CompleteTime) ELSE m1
    IN  IF Len(resp.ErrorMessages) > 0
        THEN m2 @@ ("error_messages" :> resp.ErrorMessages) ELSE m2

\* the status-detail map JobStatus builds from a reply
providerStatusOf(resp) ==
    LET m0 == ("status" :> resp.Status)
              @@ ("pct_complete" :> Itoa(resp.PercentComplete))
              @@ ("submitted" :> resp.Submitted)
        m1 == IF ~IsZero(resp.StartTime)
              THEN m0 @@ ("start_time" :> resp.StartTime) ELSE m0
        m2 == IF ~IsZero(resp.CompleteTime)
              THEN m1 @@ ("complete_time" :> resp.CompleteTime) ELSE m1
        m3 == IF ~IsZero(resp.ErroredTime)
              THEN m2 @@ ("errored_time" :> resp.ErroredTime) ELSE m2
    IN  IF Len(resp.ErrorMessages) > 0
        THEN m3 @@ ("error_messages" :> resp.ErrorMessages) ELSE m3

\* JobStatus(id), given what p.client.GetJob(id) returned: (status, error)
JobStatus(reply) ==
    IF reply.err # Nil
    THEN [status |-> Nil, err |-> reply.err]
    ELSE [status |-> [ProviderName   |-> Name,
                      ProviderJobID  |-> GetID(reply.resp),
                      Status         |-> statusMap(reply.resp.Status),
                      ProviderStatus |-> providerStatusOf(reply.resp)],
          err    |-> Nil]

\* a variant of TranscodeWithPresets that reports a failed post as queued
TranscodeWithPresetsMasksError(reply) ==
    [status |-> [ProviderName  |-> Name,
                 ProviderJobID |-> IF reply.err # Nil THEN "" ELSE GetID(reply.resp),
                 Status        |-> StatusQueued],
     err    |-> Nil]

\* TranscodeWithPresets, given what p.client.PostJob(newJob) returned
TranscodeWithPresets(reply) ==
    IF reply.err # Nil
    THEN [status |-> Nil, err |-> reply.err]
    ELSE [status |-> [ProviderName  |-> Name,
                      ProviderJobID |-> GetID(reply.resp),
                      Status        |-> StatusQueued],
          err    |-> Nil]

\* a variant of the receiver's frame in which a submission stores the
\* destination it derived back into the client handle
receiverKeepsDestination(p, source, presets) ==
    [p EXCEPT !.client.Destination = buildFullDestination(p, source)]

\* the receiver *p after TranscodeWithPresets: the method assigns no field of
\* p, of p.client or of p.config
receiverAfterTranscode(p, source, presets) == p

\* the receiver *p after JobStatus: no field assigned either
receiverAfterJobStatus(p, id) == p

(***************************************************************************)
(* The factories                                                           *)
(***************************************************************************)
errElementalConductorInvalidConfig ==
    [type |-> "provider.InvalidConfigError",
     text |-> "missing Elemental user login or api key"]

errAWSInvalidConfig ==
    [type |-> "*errors.errorString",
     text |-> "invalid Media Convert config"]

defaultAWSRegion == <<"u", "s", "-", "e", "a", "s", "t", "-", "1">>

\* elementalconductor.NewClient: fills a Client with its arguments
NewClient(host, userLogin, apiKey, authExpires, accessKeyID, secretAccessKey, destination) ==
    [Host            |-> host,
     UserLogin       |-> userLogin,
     APIKey          |-> apiKey,
     AuthExpires     |-> authExpires,
     AccessKeyID     |-> accessKeyID,
     SecretAccessKey |-> secretAccessKey,
     Destination     |-> destination]

\* returns (provider, error); built lists the backend handles constructed
elementalConductorFactory(cfg) ==
    IF \/ cfg.ElementalConductor.Host = <<>>
       \/ cfg.ElementalConductor.UserLogin = <<>>
       \/ cfg.ElementalConductor.APIKey = <<>>
       \/ cfg.ElementalConductor.AuthExpires = 0
    THEN [provider |-> Nil, err |-> errElementalConductorInvalidConfig, built |-> {}]
    ELSE [provider |-> [client |-> NewClient(cfg.ElementalConductor.Host,
                                             cfg.ElementalConductor.UserLogin,
                                             cfg.ElementalConductor.APIKey,
                                             cfg.ElementalConductor.AuthExpires,
                                             cfg.ElementalConductor.AccessKeyID,
                                             cfg.ElementalConductor.SecretAccessKey,
                                             cfg.ElementalConductor.Destination),
                        config |-> cfg],
          err      |-> Nil,
          built    |-> {"elementalconductor.Client"}]

\* sessionErr is what session.NewSession returned as its error
mediaConvertFactory(cfg, sessionErr) ==
    IF cfg.MediaConvert.AccessKeyID = <<>> \/ cfg.MediaConvert.SecretAccessKey = <<>>
    THEN [provider |-> Nil, err |-> errAWSInvalidConfig, built |-> {}]
    ELSE LET region == IF cfg.MediaConvert.Region = <<>>
                       THEN defaultAWSRegion ELSE cfg.MediaConvert.Region
         IN  IF sessionErr # Nil
             THEN [provider |-> Nil, err |-> sessionErr,
                   built |-> {"credentials.Credentials"}]
             ELSE [provider |-> [c      |-> [session |-> [region |-> region,
                                                          accessKeyID |-> cfg.MediaConvert.AccessKeyID,
                                                          secretAccessKey |-> cfg.MediaConvert.SecretAccessKey]],
                                 config |-> cfg.MediaConvert],
                   err      |-> Nil,
                   built    |-> {"credentials.Credentials", "session.Session",
                                 "mediaconvert.MediaConvert"}]

(***************************************************************************)
(* Inputs                                                                  *)
(***************************************************************************)
SeqsUpTo(S, n) == UNION {[1..k -> S] : k \in 0..n}

Unused == [phase |-> "unused"]

srcVideo   == <<"s", "3", ":", "/", "/", "i", "n", "/", "v", "i", "d", "e", "o", ".", "m", "p", "4">>
srcClipMov == <<"/", "a", "/", "b", "/", "c", "l", "i", "p", ".", "m", "o", "v">>
srcClipMp4 == <<"/", "c", "/", "c", "l", "i", "p", ".", "m", "p", "4">>
rootSlash  == <<"s", "3", ":", "/", "/", "b", "u", "c", "k", "e", "t", "/", "o", "u", "t", "/">>
rootPlain  == <<"s", "3", ":", "/", "/", "b", "u", "c", "k", "e", "t", "/", "o", "u", "t">>

SrcAlphabet == {"/", ".", "a", "b"}
BuildSources == SeqsUpTo(SrcAlphabet, MaxSrcLen) \cup {srcVideo, srcClipMov, srcClipMp4}
Roots == SeqsUpTo({"/", "r"}, MaxRootLen) \cup {rootSlash, rootPlain}

PresetIds == {"preset-a", "preset-b"}
elevenPresets == [k \in 1..11 |-> IF k % 2 = 1 THEN "preset-a" ELSE "preset-b"]
PresetLists == SeqsUpTo(PresetIds, MaxPresets) \cup {elevenPresets}

\* a configuration both factories accept, with the given storage settings
ValidConfig(accessKeyID, secretAccessKey, destination) ==
    [ElementalConductor |-> [Host            |-> <<"h">>,
                             UserLogin       |-> <<"u">>,
                             APIKey          |-> <<"a">>,
                             AuthExpires     |-> 30,
                             AccessKeyID     |-> accessKeyID,
                             SecretAccessKey |-> secretAccessKey,
                             Destination     |-> destination],
     MediaConvert       |-> [AccessKeyID     |-> <<"k">>,
                             SecretAccessKey |-> <<"s">>,
                             Region          |-> <<>>]]

ProviderWith(accessKeyID, secretAccessKey, destination) ==
    elementalConductorFactory(ValidConfig(accessKeyID, secretAccessKey, destination)).provider

(***************************************************************************)
(* SpecBuild: the builder applied to one job specification                 *)
(***************************************************************************)
InitBuild ==
    /\ build \in {[phase |-> "args", p |-> ProviderWith(<<"k">>, <<"s">>, root),
                   source |-> source, presets |-> presets] :
                       root \in Roots, source \in BuildSources, presets \in PresetLists}
    /\ poll = Unused /\ fact = Unused /\ provider = Unused
    /\ inv = Unused /\ posted = Unused

NewJobStep ==
    /\ build.phase = "args"
    /\ build' = [phase   |-> "built",
                 p       |-> build.p,
                 source  |-> build.source,
                 presets |-> build.presets,
                 job     |-> newJob(build.p, build.source, build.presets)]
    /\ UNCHANGED <<poll, fact, provider, inv, posted>>

NextBuild == NewJobStep

SpecBuild == InitBuild /\ [][NextBuild]_vars

(***************************************************************************)
(* SpecFactory: a factory applied to one configuration                     *)
(***************************************************************************)
MaybeEmpty(c) == {<<>>, <<c>>}

Configs ==
    [ElementalConductor : [Host            : MaybeEmpty("h"),
                           UserLogin       : MaybeEmpty("u"),
                           APIKey          : MaybeEmpty("a"),
                           AuthExpires     : {0, 30},
                           AccessKeyID     : MaybeEmpty("k"),
                           SecretAccessKey : MaybeEmpty("s"),
                           Destination     : {rootSlash}],
     MediaConvert       : [AccessKeyID     : MaybeEmpty("k"),
                           SecretAccessKey : MaybeEmpty("s"),
                           Region          : MaybeEmpty("r")]]

SessionErrors == {Nil, [type |-> "awserr.Error", text |-> "session"]}

InitFactory ==
    /\ fact \in {[phase |-> "config", cfg |-> cfg] : cfg \in Configs}
    /\ build = Unused /\ poll = Unused /\ provider = Unused
    /\ inv = Unused /\ posted = Unused

ElementalConductorFactoryStep ==
    /\ fact.phase = "config"
    /\ fact' = [phase   |-> "returned",
                factory |-> "elementalConductorFactory",
                cfg     |-> fact.cfg,
                out     |-> elementalConductorFactory(fact.cfg)]
    /\ UNCHANGED <<build, poll, provider, inv, posted>>

MediaConvertFactoryStep ==
    /\ fact.phase = "config"
    /\ \E sessionErr \in SessionErrors :
          fact' = [phase   |-> "returned",
                   factory |-> "mediaConvertFactory",
                   cfg     |-> fact.cfg,
                   out     |-> mediaConvertFactory(fact.cfg, sessionErr)]
    /\ UNCHANGED <<build, poll, provider, inv, posted>>

NextFactory == ElementalConductorFactoryStep \/ MediaConvertFactoryStep

SpecFactory == InitFactory /\ [][NextFactory]_vars

(***************************************************************************)
(* SpecStatus: JobStatus applied to one reply of the backend's GetJob      *)
(***************************************************************************)
sUnknownState == <<"u", "n", "k", "n", "o", "w", "n", "_", "s", "t", "a", "t", "e">>
sError        == <<"e", "r", "r", "o", "r">>
sCanceled     == <<"c", "a", "n", "c", "e", "l", "e", "d">>
sCompleted    == <<"c", "o", "m", "p", "l", "e", "t", "e", "d">>
sPendin       == <<"p", "e", "n", "d", "i", "n">>
sCompleteSp   == <<"c", "o", "m", "p", "l", "e", "t", "e", " ">>

KnownWords == {sPending, sPreprocessing, sRunning, sPostprocessing, sComplete,
               sCancelled, sArchived}
OtherWords == {<<>>, sUnknownState, sError, sCanceled, sCompleted, sPendin, sCompleteSp}

ToUpperRune(c) ==
    IF \E i \in 1..26 : LowerLetters[i] = c
    THEN UpperLetters[CHOOSE i \in 1..26 : LowerLetters[i] = c]
    ELSE c

\* the word w with the letters at the positions U in upper case
Variant(w, U) == [i \in 1..Len(w) |-> IF i \in U THEN ToUpperRune(w[i]) ELSE w[i]]

Masks(w) == {{}, 1..Len(w), {i \in 1..Len(w) : i % 2 = 0}} \cup {{k} : k \in 1..Len(w)}

StatusInputs == UNION {{Variant(w, U) : U \in Masks(w)} : w \in KnownWords \cup OtherWords}

Times == 0..MaxTime
Pcts == {-1, 0, 42, 100}
ErrorLists == {<<>>, <<"e1", "e2">>}
backendError == [type |-> "*errors.errorString", text |-> "backend said no"]

Replies(statuses) ==
    {[resp |-> r, err |-> Nil] :
        r \in [Status          : statuses,
               PercentComplete : Pcts,
               Submitted       : Times,
               StartTime       : Times,
               CompleteTime    : Times,
               ErroredTime     : Times,
               ErrorMessages   : ErrorLists,
               ID              : {"job-7"}]}
    \cup {[resp |-> Nil, err |-> backendError]}

InitStatus ==
    /\ poll \in {[phase |-> "reply", reply |-> reply] : reply \in Replies(StatusInputs)}
    /\ build = Unused /\ fact = Unused /\ provider = Unused
    /\ inv = Unused /\ posted = Unused

JobStatusStep ==
    /\ poll.phase = "reply"
    /\ poll' = [phase |-> "done", reply |-> poll.reply, out |-> JobStatus(poll.reply)]
    /\ UNCHANGED <<build, fact, provider, inv, posted>>

NextStatus == JobStatusStep

SpecStatus == InitStatus /\ [][NextStatus]_vars

(***************************************************************************)
(* Properties of the builder (SpecBuild)                                   *)
(***************************************************************************)
\* the value of a decimal numeral: a non-empty digit sequence
RECURSIVE DecValue(_)
DecValue(d) ==
    IF Len(d) = 0 THEN 0
    ELSE 10 * DecValue(SubSeq(d, 1, Len(d)-1))
         + ((CHOOSE k \in 1..10 : Digits[k] = d[Len(d)]) - 1)

IsNumeral(d) ==
    /\ Len(d) >= 1
    /\ \A i \in 1..Len(d) : \E k \in 1..10 : Digits[k] = d[i]
    /\ (Len(d) > 1 => d[1] # "0")

\* name is "stream_<i>" with <i> the decimal numeral of i
IsStreamName(name, i) ==
    /\ Len(name) > 7
    /\ SubSeq(name, 1, 7) = <<"s", "t", "r", "e", "a", "m", "_">>
    /\ IsNumeral(SubSeq(name, 8, Len(name)))
    /\ DecValue(SubSeq(name, 8, Len(name))) = i

builtOutputs == build.job.OutputGroup.Output
builtStreams == build.job.StreamAssembly
builtDestination == build.job.OutputGroup.FileGroupSettings.Destination

\* C1: for a preset list of length n the builder returns exactly n outputs and
\* n stream assemblies; the i-th output has StreamAssemblyName "stream_<i>",
\* Order i and extension ".mp4", the i-th stream assembly has Name "stream_<i>"
\* and Preset presets[i]; every output references exactly one stream assembly.
C1_OutputsPairWithStreams ==
    build.phase = "built" =>
        LET n == Len(build.presets)
        IN  /\ Len(builtOutputs) = n
            /\ Len(builtStreams) = n
            /\ \A i \in 0..(n-1) :
                  /\ IsStreamName(builtOutputs[i+1].StreamAssemblyName, i)
                  /\ builtOutputs[i+1].Order = i
                  /\ builtOutputs[i+1].Extension = <<".", "m", "p", "4">>
                  /\ IsStreamName(builtStreams[i+1].Name, i)
                  /\ builtStreams[i+1].Preset = build.presets[i+1]
                  /\ Cardinality({j \in 1..n : builtStreams[j].Name
                                      = builtOutputs[i+1].StreamAssemblyName}) = 1

\* a request built from eleven presets, whose last stream is "stream_10"
C1_Witness ==
    /\ build.phase = "built"
    /\ Len(build.presets) = 11
    /\ builtOutputs[11].StreamAssemblyName
           = <<"s", "t", "r", "e", "a", "m", "_", "1", "0">>
    /\ builtOutputs[11].Order = 10
    /\ builtStreams[2].Preset = "preset-b"

clipDestination ==
    <<"s", "3", ":", "/", "/", "b", "u", "c", "k", "e", "t", "/", "o", "u", "t", "/",
      "c", "l", "i", "p">>

\* C4: buildFullDestination returns the root without its trailing separators,
\* then "/", then the final "/"-separated segment of the source without that
\* segment's extension; "/a/b/clip.mov" under "s3://bucket/out/" or
\* "s3://bucket/out" gives "s3://bucket/out/clip".
C4_DestinationDerivation ==
    build.phase = "built" =>
        LET root == build.p.client.Destination
            src  == build.source
        IN  /\ \E k \in 0..Len(root), j \in 0..Len(src), e \in 0..Len(src) :
                  \* the last k characters of the root are its trailing separators
                  /\ \A i \in (Len(root)-k+1)..Len(root) : root[i] = "/"
                  /\ (k < Len(root) => root[Len(root)-k] # "/")
                  \* the final segment is what follows the last "/" (at j)
                  /\ (j = 0 \/ src[j] = "/")
                  /\ \A i \in (j+1)..Len(src) : src[i] # "/"
                  \* the name ends before the segment's last "."
                  /\ IF \E i \in (j+1)..Len(src) : src[i] = "."
                     THEN /\ e >= j /\ e < Len(src)
                          /\ src[e+1] = "."
                          /\ \A i \in (e+2)..Len(src) : src[i] # "."
                     ELSE e = Len(src)
                  /\ builtDestination.URI
                         = SubSeq(root, 1, Len(root)-k) \o <<"/">> \o SubSeq(src, j+1, e)
            /\ (src = srcClipMov /\ root \in {rootSlash, rootPlain}
                    => builtDestination.URI = clipDestination)

\* the example of the specification, built
C4_Witness ==
    /\ build.phase = "built"
    /\ build.source = srcClipMov
    /\ build.p.client.Destination = rootSlash
    /\ builtDestination.URI = clipDestination

\* C10: the builder never panics; the request carries the source as input URI,
\* the provider's access-key/secret pair on the input and on the output
\* location, priority 50 and output-group order 1; an empty preset list gives
\* zero outputs and zero stream assemblies.
C10_BuilderTotal ==
    build.phase = "built" =>
        /\ build.job # Panic
        /\ build.job.Input.FileInput.URI = build.source
        /\ build.job.Input.FileInput.Username = build.p.client.AccessKeyID
        /\ build.job.Input.FileInput.Password = build.p.client.SecretAccessKey
        /\ builtDestination.Username = build.p.client.AccessKeyID
        /\ builtDestination.Password = build.p.client.SecretAccessKey
        /\ build.job.Priority = 50
        /\ build.job.OutputGroup.Order = 1
        /\ (build.presets = <<>> => builtOutputs = <<>> /\ builtStreams = <<>>)

\* the degenerate request: an empty source and no presets
C10_Witness ==
    /\ build.phase = "built"
    /\ build.source = <<>>
    /\ build.presets = <<>>
    /\ build.job # Panic
    /\ builtOutputs = <<>>
    /\ builtDestination.URI = TrimRight(build.p.client.Destination, "/") \o <<"/">>

(***************************************************************************)
(* Properties of the status normalizer (SpecStatus)                        *)
(***************************************************************************)
\* s is w in some letter case
SameLetters(s, w) ==
    /\ Len(s) = Len(w)
    /\ \A i \in 1..Len(s) :
          \/ s[i] = w[i]
          \/ \E k \in 1..26 : {s[i], w[i]} = {UpperLetters[k], LowerLetters[k]}

polled == poll.out.status
native == poll.reply.resp

\* C2: statusMap gives every native status string, in any letter case, one
\* canonical status: pending -> queued; preprocessing, running,
\* postprocessing -> started; complete -> finished; cancelled -> canceled;
\* archived -> archived; every other string -> failed.
C2_StatusMapTotal ==
    (poll.phase = "done" /\ poll.reply.err = Nil) =>
        LET s == native.Status
            c == polled.Status
        IN  /\ c \in {"queued", "started", "finished", "failed", "canceled", "archived"}
            /\ (SameLetters(s, sPending) => c = "queued")
            /\ (SameLetters(s, sPreprocessing) => c = "started")
            /\ (SameLetters(s, sRunning) => c = "started")
            /\ (SameLetters(s, sPostprocessing) => c = "started")
            /\ (SameLetters(s, sComplete) => c = "finished")
            /\ (SameLetters(s, sCancelled) => c = "canceled")
            /\ (SameLetters(s, sArchived) => c = "archived")
            /\ ((\A w \in KnownWords : ~SameLetters(s, w)) => c = "failed")

\* "COMPLETE" polled as finished
C2_Witness ==
    /\ poll.phase = "done"
    /\ poll.reply.err = Nil
    /\ native.Status = <<"C", "O", "M", "P", "L", "E", "T", "E">>
    /\ polled.Status = "finished"

detail == polled.ProviderStatus

IsDecimalString(d) ==
    \/ IsNumeral(d)
    \/ Len(d) > 1 /\ d[1] = "-" /\ IsNumeral(SubSeq(d, 2, Len(d)))

DecimalValue(d) ==
    IF d[1] = "-" THEN 0 - DecValue(SubSeq(d, 2, Len(d))) ELSE DecValue(d)

PctIsString ==
    /\ "pct_complete" \in DOMAIN detail
    /\ IsDecimalString(detail["pct_complete"])
    /\ DecimalValue(detail["pct_complete"]) = native.PercentComplete

\* C3 as stated: percent-complete is always present as a string, every
\* timestamp field the map carries (submitted, start_time, complete_time,
\* errored_time) is present only when the backend's value is non-zero,
\* complete_time is present iff the completion timestamp is non-zero, and
\* error_messages is present iff the error-message list is non-empty.
C3_AsStated ==
    (poll.phase = "done" /\ poll.reply.err = Nil) =>
        /\ PctIsString
        /\ ("submitted" \in DOMAIN detail => native.Submitted # 0)
        /\ ("start_time" \in DOMAIN detail => native.StartTime # 0)
        /\ ("complete_time" \in DOMAIN detail <=> native.CompleteTime # 0)
        /\ ("errored_time" \in DOMAIN detail => native.ErroredTime # 0)
        /\ ("error_messages" \in DOMAIN detail <=> native.ErrorMessages # <<>>)

\* C3 as amended: percent-complete is always present as a string;
\* start_time, complete_time and errored_time are each present iff the
\* backend's value is non-zero; error_messages is present iff the list is
\* non-empty; submitted is always present, zero or not.
C3_DetailSparsity ==
    (poll.phase = "done" /\ poll.reply.err = Nil) =>
        /\ PctIsString
        /\ "submitted" \in DOMAIN detail
        /\ ("start_time" \in DOMAIN detail <=> native.StartTime # 0)
        /\ ("complete_time" \in DOMAIN detail <=> native.CompleteTime # 0)
        /\ ("errored_time" \in DOMAIN detail <=> native.ErroredTime # 0)
        /\ ("error_messages" \in DOMAIN detail <=> native.ErrorMessages # <<>>)

\* a finished job polled: never submitted or errored according to the reply,
\* started and completed, with no error messages
C3_Witness ==
    /\ poll.phase = "done"
    /\ poll.reply.err = Nil
    /\ native.Submitted = 0 /\ native.ErroredTime = 0
    /\ native.StartTime # 0 /\ native.CompleteTime # 0
    /\ native.ErrorMessages = <<>>
    /\ DOMAIN detail = {"status", "pct_complete", "submitted", "start_time", "complete_time"}
    /\ detail["pct_complete"] = <<"1", "0", "0">>

(***************************************************************************)
(* Spec: callers using one provider instance concurrently.  An invocation  *)
(* is two steps, split at its one blocking call of the backend client.     *)
(***************************************************************************)
Callers == {"c1", "c2"}

MainSources == {srcVideo, srcClipMov, srcClipMp4}
MainPresetLists == {<<>>, <<"preset-a", "preset-b">>}
MainRoots == {rootSlash, rootPlain}
JobIds == {"job-7", "job-8"}

PostJobReplies ==
    {[resp |-> [ID |-> id], err |-> Nil] : id \in JobIds}
    \cup {[resp |-> Nil, err |-> backendError]}

GetJobReplies ==
    { [resp |-> [Status |-> Variant(sComplete, 1..Len(sComplete)),
                 PercentComplete |-> 100, Submitted |-> 1,
                 StartTime |-> 1, CompleteTime |-> 1, ErroredTime |-> 0,
                 ErrorMessages |-> <<>>, ID |-> "job-8"],
       err |-> Nil],
      [resp |-> Nil, err |-> backendError] }

Idle == [pc |-> "idle"]

Init ==
    /\ provider \in {ProviderWith(<<"k">>, <<"s">>, root) : root \in MainRoots}
    /\ inv = [c \in Callers |-> Idle]
    /\ posted = <<>>
    /\ build = Unused /\ poll = Unused /\ fact = Unused

\* TranscodeWithPresets up to and including the call of p.client.PostJob
TranscodeCall(c) ==
    /\ inv[c].pc = "idle"
    /\ Len(posted) < MaxJobs
    /\ \E source \in MainSources, presets \in MainPresetLists :
          LET job == newJob(provider, source, presets)
          IN  /\ posted' = Append(posted, job)
              /\ inv' = [inv EXCEPT ![c] =
                            [pc      |-> "PostJob",
                             op      |-> "TranscodeWithPresets",
                             source  |-> source,
                             presets |-> presets,
                             slot    |-> Len(posted) + 1,
                             calls   |-> 1]]
              /\ provider' = receiverAfterTranscode(provider, source, presets)
    /\ UNCHANGED <<build, poll, fact>>

\* PostJob returns and TranscodeWithPresets returns its result
TranscodeReturn(c) ==
    /\ inv[c].pc = "PostJob"
    /\ \E reply \in PostJobReplies :
          inv' = [inv EXCEPT ![c] =
                     [pc      |-> "returned",
                      op      |-> "TranscodeWithPresets",
                      source  |-> inv[c].source,
                      presets |-> inv[c].presets,
                      slot    |-> inv[c].slot,
                      calls   |-> inv[c].calls,
                      reply   |-> reply,
                      out     |-> TranscodeWithPresets(reply)]]
    /\ UNCHANGED <<provider, posted, build, poll, fact>>

\* JobStatus up to and including the call of p.client.GetJob
JobStatusCall(c) ==
    /\ inv[c].pc = "idle"
    /\ \E id \in JobIds :
          /\ inv' = [inv EXCEPT ![c] =
                        [pc |-> "GetJob", op |-> "JobStatus", id |-> id, calls |-> 1]]
          /\ provider' = receiverAfterJobStatus(provider, id)
    /\ UNCHANGED <<posted, build, poll, fact>>

\* GetJob returns and JobStatus returns its result
JobStatusReturn(c) ==
    /\ inv[c].pc = "GetJob"
    /\ \E reply \in GetJobReplies :
          inv' = [inv EXCEPT ![c] =
                     [pc    |-> "returned",
                      op    |-> "JobStatus",
                      id    |-> inv[c].id,
                      calls |-> inv[c].calls,
                      reply |-> reply,
                      out   |-> JobStatus(reply)]]
    /\ UNCHANGED <<provider, posted, build, poll, fact>>

\* the caller takes the result and is free to invoke again
TakeResult(c) ==
    /\ inv[c].pc = "returned"
    /\ inv' = [inv EXCEPT ![c] = Idle]
    /\ UNCHANGED <<provider, posted, build, poll, fact>>

Next ==
    \E c \in Callers :
        \/ TranscodeCall(c)
        \/ TranscodeReturn(c)
        \/ JobStatusCall(c)
        \/ JobStatusReturn(c)
        \/ TakeResult(c)

Spec == Init /\ [][Next]_vars

(***************************************************************************)
(* Properties of the factories (SpecFactory)                               *)
(***************************************************************************)
\* a field the factory requires is absent from the configuration
RequiredMissing(factory, cfg) ==
    IF factory = "elementalConductorFactory"
    THEN \/ cfg.ElementalConductor.Host = <<>>
         \/ cfg.ElementalConductor.UserLogin = <<>>
         \/ cfg.ElementalConductor.APIKey = <<>>
         \/ cfg.ElementalConductor.AuthExpires = 0
    ELSE \/ cfg.MediaConvert.AccessKeyID = <<>>
         \/ cfg.MediaConvert.SecretAccessKey = <<>>

\* C6: a factory given a configuration that lacks a field it requires returns
\* an InvalidConfigError and no provider, having constructed no backend
\* client, session or credentials.
C6_AsStated ==
    (fact.phase = "returned" /\ RequiredMissing(fact.factory, fact.cfg)) =>
        /\ fact.out.err.type = "provider.InvalidConfigError"
        /\ fact.out.provider = Nil
        /\ fact.out.built = {}

(***************************************************************************)
(* Properties of the provider in use (Spec)                                *)
(***************************************************************************)
Submitting(c) == inv[c].pc \in {"PostJob", "returned"} /\ inv[c].op = "TranscodeWithPresets"
Returned(c, op) == inv[c].pc = "returned" /\ inv[c].op = op

inputURI(job) == job.Input.FileInput.URI
outputURI(job) == job.OutputGroup.FileGroupSettings.Destination.URI

\* C5 as stated: any two submitted jobs with different source URIs have
\* different output base paths.
C5_AsStated ==
    \A i, j \in 1..Len(posted) :
        inputURI(posted[i]) # inputURI(posted[j])
            => outputURI(posted[i]) # outputURI(posted[j])

\* C5 as amended: two submitted jobs whose sources differ in the final path
\* segment with its extension stripped have different output base paths.
C5_DistinctFileNamesDistinctPaths ==
    \A i, j \in 1..Len(posted) :
        (sourceFileName(inputURI(posted[i])) # sourceFileName(inputURI(posted[j])))
            => (outputURI(posted[i]) # outputURI(posted[j]))

\* one job for clip and one for video, in different places
C5_Witness ==
    /\ Len(posted) >= 2
    /\ inputURI(posted[1]) = srcClipMov
    /\ inputURI(posted[2]) = srcVideo
    /\ outputURI(posted[1]) = clipDestination
    /\ outputURI(posted[2]) # outputURI(posted[1])

\* C7: the request PostJob receives is the one built from the invocation's
\* source and presets (input URI the source, one output and one stream
\* assembly per preset, in order), and a successful submit returns the
\* provider name "elementalconductor", the id of the reply and status queued.
C7_SubmitPostsBuiltRequest ==
    \A c \in Callers :
        Submitting(c) =>
            LET job == posted[inv[c].slot]
                n   == Len(inv[c].presets)
            IN  /\ job = newJob(provider, inv[c].source, inv[c].presets)
                /\ inputURI(job) = inv[c].source
                /\ Len(job.OutputGroup.Output) = n
                /\ Len(job.StreamAssembly) = n
                /\ \A i \in 0..(n-1) :
                      /\ job.OutputGroup.Output[i+1].Order = i
                      /\ IsStreamName(job.OutputGroup.Output[i+1].StreamAssemblyName, i)
                      /\ IsStreamName(job.StreamAssembly[i+1].Name, i)
                      /\ job.StreamAssembly[i+1].Preset = inv[c].presets[i+1]
                /\ (inv[c].pc = "returned" /\ inv[c].reply.err = Nil =>
                       /\ inv[c].out.err = Nil
                       /\ inv[c].out.status.ProviderName = "elementalconductor"
                       /\ inv[c].out.status.ProviderJobID = inv[c].reply.resp.ID
                       /\ inv[c].out.status.Status = "queued")

\* the end-to-end scenario: "s3://in/video.mp4" with preset-a and preset-b
C7_Witness ==
    \E c \in Callers :
        /\ Returned(c, "TranscodeWithPresets")
        /\ inv[c].source = srcVideo
        /\ inv[c].presets = <<"preset-a", "preset-b">>
        /\ inv[c].reply.err = Nil
        /\ inv[c].out.status.ProviderJobID = "job-8"
        /\ posted[inv[c].slot].StreamAssembly[2]
               = [Name |-> <<"s", "t", "r", "e", "a", "m", "_", "1">>, Preset |-> "preset-b"]

\* C8: an invocation of submit or poll calls the backend once; when the call
\* fails the invocation returns that error and no JobStatus; a result is
\* never both a JobStatus and an error, nor neither.
C8_OneCallErrorsPropagate ==
    \A c \in Callers :
        /\ (inv[c].pc \in {"PostJob", "GetJob", "returned"} => inv[c].calls = 1)
        /\ (inv[c].pc = "returned" =>
               /\ (inv[c].reply.err # Nil =>
                      inv[c].out.err = inv[c].reply.err /\ inv[c].out.status = Nil)
               /\ (inv[c].reply.err = Nil =>
                      inv[c].out.err = Nil /\ inv[c].out.status # Nil)
               /\ ((inv[c].out.status = Nil) # (inv[c].out.err = Nil)))

\* a failed submit while the other caller's poll has failed too
C8_Witness ==
    /\ Returned("c1", "TranscodeWithPresets")
    /\ inv["c1"].reply.err = backendError
    /\ inv["c1"].out = [status |-> Nil, err |-> backendError]
    /\ Returned("c2", "JobStatus")
    /\ inv["c2"].out = [status |-> Nil, err |-> backendError]

\* every request in flight or answered is the one the instance builds now
\* from the same source and presets, requests with the same input and stream
\* assemblies are equal, and invocations with equal inputs and equal replies
\* have equal results
Deterministic ==
    /\ \A c \in Callers :
          Submitting(c) => posted[inv[c].slot] = newJob(provider, inv[c].source, inv[c].presets)
    /\ \A i, j \in 1..Len(posted) :
          (posted[i].Input = posted[j].Input /\ posted[i].StreamAssembly = posted[j].StreamAssembly)
              => posted[i] = posted[j]
    /\ \A c, d \in Callers :
          (/\ inv[c].pc = "returned" /\ inv[d].pc = "returned"
           /\ inv[c].op = inv[d].op /\ inv[c].reply = inv[d].reply)
              => inv[c].out = inv[d].out

====
